---- MODULE Spec2Model ----
(***************************************************************************)
(* A model of s4cmb/tod.py: the pixel indexer (build_pointing_matrix),     *)
(* the forward projector (map2tod), the map accumulator (tod2map), the     *)
(* map solver (get_I, get_QU, get_IQU) and the map combiner (coadd).       *)
(*                                                                         *)
(* Floating-point numbers are modelled by exact rationals <<n, d>> in      *)
(* lowest terms (d > 0) plus one NaN, <<0, 0>>.  Rounding is not modelled: *)
(* the properties below are the exact-arithmetic content of the code.      *)
(***************************************************************************)
EXTENDS Integers, Sequences, FiniteSets, TLC

VARIABLES
    maps,     \* the OutputSkyMap objects alive, by identifier
    fperr,    \* numpy's floating-point error handling: "warn" (default) or "raise"
    ret,      \* what the last call returned or raised
    nops,     \* number of mutating calls made so far (bounded)
    bpm,      \* build_pointing_matrix: its arguments and, once called, its result
    tod,      \* the TimeOrderedDataPairDiff object and its collaborators
    ts        \* the timestreams map2tod has returned so far, by channel

vars == <<maps, fperr, ret, nops, bpm, tod, ts>>

----------------------------------------------------------------------------
(* Floating-point values *)

NaN == <<0, 0>>
Zero == <<0, 1>>
One == <<1, 1>>
Num(n) == <<n, 1>>
IsNaN(v) == v[2] = 0

Abs(n) == IF n < 0 THEN -n ELSE n

RECURSIVE GCD(_, _)
GCD(a, b) == IF b = 0 THEN a ELSE GCD(b, a % b)

\* n / d in lowest terms, d > 0
Rat(n, d) == LET g == GCD(Abs(n), d) IN <<n \div g, d \div g>>

FNeg(a) == IF IsNaN(a) THEN NaN ELSE <<-a[1], a[2]>>

FAbs(a) == IF IsNaN(a) THEN NaN ELSE <<Abs(a[1]), a[2]>>

FAdd(a, b) ==
    IF IsNaN(a) \/ IsNaN(b) THEN NaN
    ELSE LET g == GCD(a[2], b[2])
             L == (a[2] \div g) * b[2]
         IN  Rat(a[1] * (L \div a[2]) + b[1] * (L \div b[2]), L)

FSub(a, b) == FAdd(a, FNeg(b))

FMul(a, b) ==
    IF IsNaN(a) \/ IsNaN(b) THEN NaN
    ELSE IF a[1] = 0 \/ b[1] = 0 THEN Zero
    ELSE LET g1 == GCD(Abs(a[1]), b[2])
             g2 == GCD(Abs(b[1]), a[2])
         IN  <<(a[1] \div g1) * (b[1] \div g2), (a[2] \div g2) * (b[2] \div g1)>>

\* 1 / a, for a # 0 (the code never divides by zero: it masks first)
FInv(a) ==
    IF IsNaN(a) THEN NaN
    ELSE IF a[1] < 0 THEN <<-a[2], -a[1]>> ELSE <<a[2], a[1]>>

FDiv(a, b) == FMul(a, FInv(b))

\* IEEE comparisons: every ordered comparison with a NaN is false, != is true
FLt(a, b) == ~IsNaN(a) /\ ~IsNaN(b) /\ FSub(a, b)[1] < 0
FGt(a, b) == FLt(b, a)
FNe(a, b) == IsNaN(a) \/ IsNaN(b) \/ a # b
FEq(a, b) == ~FNe(a, b)

IsNum(v) == ~IsNaN(v)

\* np.zeros(n)
zeros(n) == [i \in 1..n |-> Zero]

HasNaN(x) == \E i \in 1..Len(x) : IsNaN(x[i])

\* np.finfo(np.float32).eps = 2^-23
EpsDen == 8388608
thresh == <<1, EpsDen>>

----------------------------------------------------------------------------
(* OutputSkyMap *)

ArrayNames == <<"d", "dc", "ds", "w", "cc", "cs", "ss", "nhit">>

NoObspix == [given |-> FALSE, pix |-> <<>>]
Obspix(s) == [given |-> TRUE, pix |-> s]

NoIdet == [set |-> FALSE, val |-> <<>>]

\* OutputSkyMap.initialise_sky_maps: the eight arrays, all zero, of length npixsky
initialise_sky_maps(npixsky) == [k \in {ArrayNames[i] : i \in 1..Len(ArrayNames)} |-> zeros(npixsky)]

\* OutputSkyMap.__init__ for the two known projections
OutputSkyMap(projection, obspix, npixsky) ==
    [projection |-> projection,
     obspix     |-> obspix,
     npixsky    |-> IF projection = "healpix" THEN Len(obspix.pix) ELSE npixsky,
     arr        |-> initialise_sky_maps(IF projection = "healpix" THEN Len(obspix.pix) ELSE npixsky),
     idet       |-> NoIdet]

----------------------------------------------------------------------------
(* Map solver *)

Raised(e) == [exc |-> e, I |-> <<>>, Q |-> <<>>, U |-> <<>>]
Returned(I, Q, U) == [exc |-> "none", I |-> I, Q |-> Q, U |-> U]

\* an ordered comparison (<, >) on an array holding a NaN signals "invalid";
\* with np.seterr(all='raise') that is a FloatingPointError
CmpRaises(x, fe) == fe = "raise" /\ HasNaN(x)

\* get_I with the hit mask taken as w != 0
get_I_nonzero_mask(m, fe) ==
    IF CmpRaises(m.arr.w, fe) THEN Raised("FloatingPointError")
    ELSE Returned([i \in 1..Len(m.arr.d) |->
                     IF FNe(m.arr.w[i], Zero) THEN FDiv(m.arr.d[i], m.arr.w[i]) ELSE Zero],
                  <<>>, <<>>)

\* get_I, lines 593-596
get_I(m, fe) ==
    IF CmpRaises(m.arr.w, fe) THEN Raised("FloatingPointError")
    ELSE LET hit == [i \in 1..Len(m.arr.w) |-> FGt(m.arr.w[i], Zero)]
             I0  == [i \in 1..Len(m.arr.d) |-> Zero]
             I   == [i \in 1..Len(I0) |->
                        IF hit[i] THEN FDiv(m.arr.d[i], m.arr.w[i]) ELSE I0[i]]
         IN  Returned(I, <<>>, <<>>)

\* testcc = cc * ss - cs * cs, line 615
testcc(m) ==
    [i \in 1..Len(m.arr.cc) |->
        FSub(FMul(m.arr.cc[i], m.arr.ss[i]), FMul(m.arr.cs[i], m.arr.cs[i]))]

\* the singular mask izero, lines 620-625
izero(det, fe) ==
    IF CmpRaises(det, fe)
    THEN \* except FloatingPointError: NaN entries, and the rest below thresh
         [i \in 1..Len(det) |-> IsNaN(det[i]) \/ FLt(FAbs(det[i]), thresh)]
    ELSE [i \in 1..Len(det) |-> FLt(FAbs(det[i]), thresh)]

\* the inverse determinant idet, lines 616-627
idetOf(det, fe) ==
    LET inonzero == [i \in 1..Len(det) |-> FNe(det[i], Zero)]
        idet0    == [i \in 1..Len(det) |-> IF inonzero[i] THEN FInv(det[i]) ELSE Zero]
        iz       == izero(det, fe)
    IN  [i \in 1..Len(det) |-> IF iz[i] THEN Zero ELSE idet0[i]]

\* Q and U, lines 630-631
solveQ(m, idet) ==
    [i \in 1..Len(idet) |->
        FMul(idet[i], FSub(FMul(m.arr.ss[i], m.arr.dc[i]), FMul(m.arr.cs[i], m.arr.ds[i])))]

\* U with the sign of the cs * dc term lost
solveU_sign_slip(m, idet) ==
    [i \in 1..Len(idet) |->
        FMul(idet[i], FAdd(FMul(m.arr.cs[i], m.arr.dc[i]), FMul(m.arr.cc[i], m.arr.ds[i])))]

solveU(m, idet) ==
    [i \in 1..Len(idet) |->
        FMul(idet[i], FAdd(FMul(FNeg(m.arr.cs[i]), m.arr.dc[i]), FMul(m.arr.cc[i], m.arr.ds[i])))]

\* get_QU's return value
get_QU(m, fe) ==
    LET idet == idetOf(testcc(m), fe)
    IN  Returned(<<>>, solveQ(m, idet), solveU(m, idet))

\* get_QU's effect on the object: self.idet = idet, line 628
get_QU_self(m, fe) == [m EXCEPT !.idet = [set |-> TRUE, val |-> idetOf(testcc(m), fe)]]

\* get_I building its result in place (I = self.d instead of a fresh array)
get_I_self_in_place(m, fe) ==
    IF CmpRaises(m.arr.w, fe) THEN m
    ELSE [m EXCEPT !.arr.d = [i \in 1..Len(m.arr.d) |->
             IF FGt(m.arr.w[i], Zero) THEN FDiv(m.arr.d[i], m.arr.w[i]) ELSE m.arr.d[i]]]

\* get_I's effect on the object: none
get_I_self(m, fe) == m

\* get_IQU: get_I, then get_QU, lines 656-658
get_IQU(m, fe) ==
    LET i  == get_I(m, fe)
        qu == get_QU(get_I_self(m, fe), fe)
    IN  IF i.exc # "none" THEN i ELSE Returned(i.I, qu.Q, qu.U)

get_IQU_self(m, fe) ==
    IF get_I(m, fe).exc # "none" THEN get_I_self(m, fe)
    ELSE get_QU_self(get_I_self(m, fe), fe)

----------------------------------------------------------------------------
(* Pixel indexer *)

\* the insertion point of v in a[lo+1 .. hi] by bisection (side 'left')
RECURSIVE bisect_left(_, _, _, _)
bisect_left(a, v, lo, hi) ==
    IF lo >= hi THEN lo
    ELSE LET mid == (lo + hi) \div 2
         IN  IF a[mid + 1] < v THEN bisect_left(a, v, mid + 1, hi)
             ELSE bisect_left(a, v, lo, mid)

\* the insertion point after the entries equal to v (side 'right')
RECURSIVE bisect_right(_, _, _, _)
bisect_right(a, v, lo, hi) ==
    IF lo >= hi THEN lo
    ELSE LET mid == (lo + hi) \div 2
         IN  IF a[mid + 1] <= v THEN bisect_right(a, v, mid + 1, hi)
             ELSE bisect_right(a, v, lo, mid)

searchsorted_right(obspix, v) == bisect_right(obspix, v, 0, Len(obspix))

\* obspix.searchsorted(v), line 870: a 0-based index in 0 .. len(obspix)
searchsorted(obspix, v) == bisect_left(obspix, v, 0, Len(obspix))

\* the healpix branch with the outliers cut whatever cut_outliers says
bpm_healpix_always_cut(index_global, obspix, cut_outliers) ==
    LET npixsky == Len(obspix)
        n == Len(index_global)
        index_local == [t \in 1..n |-> searchsorted(obspix, index_global[t])]
        loc == [t \in 1..n |->
                   IF index_local[t] < npixsky
                   THEN obspix[index_local[t] + 1] = index_global[t] ELSE FALSE]
    IN  [exc |-> "none",
         index_local |-> [t \in 1..n |-> IF ~loc[t] THEN -1 ELSE index_local[t]]]

\* the healpix branch, lines 868-879, on the global identifiers hp.ang2pix gave
bpm_healpix(index_global, obspix, cut_outliers) ==
    LET npixsky == Len(obspix)
        n == Len(index_global)
        index_local == [t \in 1..n |-> searchsorted(obspix, index_global[t])]
        mask1 == [t \in 1..n |-> index_local[t] < npixsky]
        loc == [t \in 1..n |->
                   IF mask1[t] THEN obspix[index_local[t] + 1] = index_global[t] ELSE FALSE]
        outside_pixels == [t \in 1..n |-> ~loc[t]]
    IN  IF (\E t \in 1..n : outside_pixels[t]) /\ ~cut_outliers
        THEN [exc |-> "ValueError", index_local |-> <<>>]
        ELSE [exc |-> "none",
              index_local |-> [t \in 1..n |-> IF outside_pixels[t] THEN -1 ELSE index_local[t]]]

\* floor of a number
FFloor(a) == a[1] \div a[2]

\* np.int_ of a number: the fraction is dropped, rounding toward zero
int_(a) == IF a[1] < 0 THEN -((-a[1]) \div a[2]) ELSE a[1] \div a[2]

\* the flat branch, lines 881-893, on the plane coordinates LamCyl gave
bpm_flat(x, y, xmin, ymin, pixel_size, npix_per_row) ==
    LET n == Len(x)
        xminmap == FSub(xmin, FDiv(pixel_size, Num(2)))
        yminmap == FSub(ymin, FDiv(pixel_size, Num(2)))
        ix == [t \in 1..n |-> int_(FDiv(FSub(x[t], xminmap), pixel_size))]
        iy == [t \in 1..n |-> int_(FDiv(FSub(y[t], yminmap), pixel_size))]
        outside == [t \in 1..n |->
                       \/ ix[t] < 0 \/ ix[t] >= npix_per_row
                       \/ iy[t] < 0 \/ iy[t] >= npix_per_row]
    IN  [exc |-> "none",
         index_local |-> [t \in 1..n |->
                            IF outside[t] THEN -1 ELSE ix[t] * npix_per_row + iy[t]]]

\* build_pointing_matrix's index_local, lines 868-897, for a call record c
build_pointing_matrix(c) ==
    IF c.projection = "healpix" /\ c.obspix.given
    THEN bpm_healpix(c.index_global, c.obspix.pix, c.cut_outliers)
    ELSE IF c.projection = "flat"
    THEN bpm_flat(c.x, c.y, c.xmin, c.ymin, c.pixel_size, c.npix_per_row)
    ELSE [exc |-> "none", index_local |-> <<>>]     \* index_local = None

\* the arguments of a call: the coordinates as resolved by the external
\* libraries (hp.ang2pix: index_global; LamCyl: x, y) and the keywords
BpmCall(projection, index_global, obspix, cut_outliers, x, y, xmin, pixel_size, npix_per_row) ==
    [projection |-> projection, index_global |-> index_global, obspix |-> obspix,
     cut_outliers |-> cut_outliers, x |-> x, y |-> y, xmin |-> xmin, ymin |-> xmin,
     pixel_size |-> pixel_size, npix_per_row |-> npix_per_row,
     called |-> FALSE, out |-> [exc |-> "none", index_local |-> <<>>]]

NoBpm == BpmCall("healpix", <<>>, NoObspix, TRUE, <<>>, <<>>, Zero, One, 0)

NoTod == [projection |-> "none"]

\* build_pointing_matrix(...) is called
BuildPointingMatrix ==
    /\ ~bpm.called
    /\ bpm' = [bpm EXCEPT !.called = TRUE, !.out = build_pointing_matrix(bpm)]
    /\ UNCHANGED <<maps, fperr, ret, nops, tod, ts>>

----------------------------------------------------------------------------
(* Forward projector and map accumulator *)

\* Angles are whole multiples of pi / 8.  The polarisation angles the model
\* meets are multiples of pi / 4, where the cosine and sine of twice the
\* angle are -1, 0 or 1.
cos2(a) == CASE (a \div 2) % 4 = 0 -> 1
             [] (a \div 2) % 4 = 2 -> -1
             [] OTHER -> 0

sin2(a) == CASE (a \div 2) % 4 = 1 -> 1
             [] (a \div 2) % 4 = 3 -> -1
             [] OTHER -> 0

\* degrees (multiples of 45) to multiples of pi / 8
d2r(deg) == (deg * 2) \div 45

\* the largest k with k * k <= n: int(np.sqrt(n))
RECURSIVE isqrt_from(_, _)
isqrt_from(n, k) == IF (k + 1) * (k + 1) > n THEN k ELSE isqrt_from(n, k + 1)

isqrt(n) == isqrt_from(n, 0)

\* int(round(a)) of a non-negative number, halves rounded up
round(a) == (2 * a[1] + a[2]) \div (2 * a[2])

\* npixsky as get_obspix returns it, lines 222-228; xmax - xmin is the width
get_npixsky(projection, width, pixel_size, obspix) ==
    IF projection = "flat"
    THEN LET n == round(FDiv(FAdd(width, pixel_size), pixel_size)) IN n * n
    ELSE Len(obspix)

\* the object with the pointing matrix created full of the sentinel -1
TimeOrderedDataPairDiff_sentinel_rows(projection, sky, npair, nsamples, width, pixel_size, obspix, hwpangle, bolo_polangle, pointing) ==
    [projection |-> projection,
     I |-> sky.I, Q |-> sky.Q, U |-> sky.U, do_pol |-> sky.do_pol,
     width |-> width, pixel_size |-> pixel_size,
     npair |-> npair, nsamples |-> nsamples,
     hwpangle |-> hwpangle,
     intrinsic_polangle |-> bolo_polangle,
     pol_angs |-> [p \in 1..npair |-> [t \in 1..nsamples |-> 0]],
     point_matrix |-> [p \in 1..npair |-> [t \in 1..nsamples |-> -1]],
     wafermask_pixel |-> [p \in 1..npair |-> [t \in 1..nsamples |-> 1]],
     obspix |-> obspix,
     npixsky |-> get_npixsky(projection, width, pixel_size, obspix),
     sum_weight |-> [p \in 1..npair |-> One],
     diff_weight |-> [p \in 1..npair |-> One],
     pointing |-> pointing]

\* the object TimeOrderedDataPairDiff(...) constructs, lines 61-121, with what
\* its collaborators hold: sky is the input map (I, Q, U by global pixel
\* identifier, do_pol), pointing[ch + 1] what pointing.offset_detector gives
\* for channel ch (per sample: the global pixel hp.ang2pix resolves, the
\* plane coordinates LamCyl resolves, the parallactic angle)
TimeOrderedDataPairDiff(projection, sky, npair, nsamples, width, pixel_size, obspix, hwpangle, bolo_polangle, pointing) ==
    [projection |-> projection,
     I |-> sky.I, Q |-> sky.Q, U |-> sky.U, do_pol |-> sky.do_pol,
     width |-> width, pixel_size |-> pixel_size,
     npair |-> npair, nsamples |-> nsamples,
     hwpangle |-> hwpangle,
     intrinsic_polangle |-> bolo_polangle,
     pol_angs |-> [p \in 1..npair |-> [t \in 1..nsamples |-> 0]],
     point_matrix |-> [p \in 1..npair |-> [t \in 1..nsamples |-> 0]],
     wafermask_pixel |-> [p \in 1..npair |-> [t \in 1..nsamples |-> 1]],
     obspix |-> obspix,
     npixsky |-> get_npixsky(projection, width, pixel_size, obspix),
     sum_weight |-> [p \in 1..npair |-> One],
     diff_weight |-> [p \in 1..npair |-> One],
     pointing |-> pointing]

\* compute_simpolangle, lines 329-340 (polangle_err False)
compute_simpolangle(self, ch, parallactic_angle, do_demodulation) ==
    LET ang_pix == d2r(90 - self.intrinsic_polangle[ch + 1])
    IN  [t \in 1..Len(parallactic_angle) |->
            IF ~do_demodulation
            THEN parallactic_angle[t] + ang_pix + 2 * self.hwpangle[t]
            ELSE parallactic_angle[t] - ang_pix - 2 * self.hwpangle[t]]

\* the two build_pointing_matrix calls of map2tod, lines 374-387
map2tod_index_local(self, ch) ==
    LET pt == self.pointing[ch + 1]
    IN  IF self.projection = "flat"
        THEN bpm_flat(pt.x, pt.y, FNeg(FDiv(self.width, Num(2))),
                      FNeg(FDiv(self.width, Num(2))), self.pixel_size,
                      isqrt(self.npixsky)).index_local
        ELSE bpm_healpix(pt.pix, self.obspix, TRUE).index_local

\* I + Q cos(2 pol_ang) + U cos(2 pol_ang)
map2tod_ts_cos_twice(self, index_global, pol_ang) ==
    [t \in 1..Len(index_global) |->
        FAdd(self.I[index_global[t] + 1],
             FAdd(FMul(self.Q[index_global[t] + 1], Num(cos2(pol_ang[t]))),
                  FMul(self.U[index_global[t] + 1], Num(cos2(pol_ang[t])))))]

\* the polarised timestream, lines 405-408 (norm = 1.0)
map2tod_ts(self, index_global, pol_ang) ==
    [t \in 1..Len(index_global) |->
        FAdd(self.I[index_global[t] + 1],
             FAdd(FMul(self.Q[index_global[t] + 1], Num(cos2(pol_ang[t]))),
                  FMul(self.U[index_global[t] + 1], Num(sin2(pol_ang[t])))))]

\* what map2tod(ch) returns, lines 396-410
map2tod(self, ch) ==
    LET pt == self.pointing[ch + 1]
    IN  IF self.do_pol
        THEN map2tod_ts(self, pt.pix, compute_simpolangle(self, ch, pt.pa, FALSE))
        ELSE [t \in 1..Len(pt.pix) |-> self.I[pt.pix[t] + 1]]

\* map2tod(ch) storing the rows for the bottom bolometers as well
map2tod_self_every_channel(self, ch) ==
    [self EXCEPT
        !.point_matrix[(ch \div 2) + 1] = map2tod_index_local(self, ch),
        !.pol_angs[(ch \div 2) + 1] =
            IF self.do_pol
            THEN compute_simpolangle(self, ch, self.pointing[ch + 1].pa, FALSE)
            ELSE @]

\* the object after map2tod(ch), lines 390-391 and 402-403
map2tod_self(self, ch) ==
    IF ch % 2 # 0 THEN self
    ELSE [self EXCEPT
            !.point_matrix[(ch \div 2) + 1] = map2tod_index_local(self, ch),
            !.pol_angs[(ch \div 2) + 1] =
                IF self.do_pol
                THEN compute_simpolangle(self, ch, self.pointing[ch + 1].pa, FALSE)
                ELSE @]

\* m.flatten() of a two-dimensional array with ncols columns
flatten(m, ncols) ==
    [k \in 1..(Len(m) * ncols) |-> m[((k - 1) \div ncols) + 1][((k - 1) % ncols) + 1]]

Half == <<1, 2>>

\* The accumulation kernel tod_f.tod2map_alldet_f from sample k on.  For
\* pair p (0-based) and sample t, the pair's timestreams are rows 2p and
\* 2p + 1 of waferts; a sample whose mask is 0 or whose pixel is -1 is skipped.
RECURSIVE tod2map_alldet_f(_, _, _, _, _, _, _, _, _, _)
tod2map_alldet_f(arr, point_matrix, pol_angs, waferts, diff_weight, sum_weight, nt, wafermask_pixel, npixfp, k) ==
    IF k > npixfp * nt THEN arr
    ELSE LET p == (k - 1) \div nt
             t == ((k - 1) % nt) + 1
             ipix == point_matrix[k] + 1
             top == waferts[2 * p * nt + t]
             bot == waferts[(2 * p + 1) * nt + t]
             sum == FMul(Half, FAdd(top, bot))
             diff == FMul(Half, FSub(top, bot))
             c == Num(cos2(pol_angs[k]))
             s == Num(sin2(pol_angs[k]))
             sw == sum_weight[p + 1]
             dw == diff_weight[p + 1]
             hit == [arr EXCEPT
                       !.d[ipix] = FAdd(@, FMul(sw, sum)),
                       !.w[ipix] = FAdd(@, sw),
                       !.dc[ipix] = FAdd(@, FMul(dw, FMul(c, diff))),
                       !.ds[ipix] = FAdd(@, FMul(dw, FMul(s, diff))),
                       !.cc[ipix] = FAdd(@, FMul(dw, FMul(c, c))),
                       !.cs[ipix] = FAdd(@, FMul(dw, FMul(c, s))),
                       !.ss[ipix] = FAdd(@, FMul(dw, FMul(s, s))),
                       !.nhit[ipix] = FAdd(@, One)]
         IN  tod2map_alldet_f(
                 IF wafermask_pixel[k] = 0 \/ point_matrix[k] = -1 THEN arr ELSE hit,
                 point_matrix, pol_angs, waferts, diff_weight, sum_weight,
                 nt, wafermask_pixel, npixfp, k + 1)

\* m.shape[0] and m.shape[1] of a two-dimensional array with at least one row
shape0(m) == Len(m)
shape1(m) == Len(m[1])

\* tod2map handing the kernel a mask of ones in place of wafermask_pixel
tod2map_mask_of_ones(self, waferts, output_maps) ==
    LET npair == shape0(waferts)
        nt == shape1(waferts)
    IN  IF \/ npair # 2 * shape0(self.point_matrix)
           \/ nt # shape1(self.point_matrix)
           \/ npair # 2 * shape0(self.pol_angs)
           \/ nt # shape1(self.pol_angs)
           \/ npair # 2 * Len(self.diff_weight)
           \/ npair # 2 * Len(self.sum_weight)
        THEN [exc |-> "AssertionError", output_maps |-> output_maps]
        ELSE [exc |-> "none",
              output_maps |->
                 [output_maps EXCEPT !.arr =
                    tod2map_alldet_f(@, flatten(self.point_matrix, nt),
                                     flatten(self.pol_angs, nt), flatten(waferts, nt),
                                     self.diff_weight, self.sum_weight, nt,
                                     [k \in 1..((npair \div 2) * nt) |-> 1],
                                     npair \div 2, 1)]]

\* tod2map with npixfp = npair // 2, the division rounding down
tod2map_floor_division(self, waferts, output_maps) ==
    LET npair == shape0(waferts)
        npixfp == npair \div 2
        nt == shape1(waferts)
    IN  IF \/ npixfp # shape0(self.point_matrix)
           \/ nt # shape1(self.point_matrix)
           \/ npixfp # shape0(self.pol_angs)
           \/ nt # shape1(self.pol_angs)
           \/ npixfp # Len(self.diff_weight)
           \/ npixfp # Len(self.sum_weight)
        THEN [exc |-> "AssertionError", output_maps |-> output_maps]
        ELSE [exc |-> "none",
              output_maps |->
                 [output_maps EXCEPT !.arr =
                    tod2map_alldet_f(@, flatten(self.point_matrix, nt),
                                     flatten(self.pol_angs, nt), flatten(waferts, nt),
                                     self.diff_weight, self.sum_weight, nt,
                                     flatten(self.wafermask_pixel, shape1(self.wafermask_pixel)),
                                     npixfp, 1)]]

\* tod2map handing the kernel arrays of zeros in place of the accumulator's
tod2map_into_zeros(self, waferts, output_maps) ==
    LET npair == shape0(waferts)
        nt == shape1(waferts)
    IN  IF \/ npair # 2 * shape0(self.point_matrix)
           \/ nt # shape1(self.point_matrix)
           \/ npair # 2 * shape0(self.pol_angs)
           \/ nt # shape1(self.pol_angs)
           \/ npair # 2 * Len(self.diff_weight)
           \/ npair # 2 * Len(self.sum_weight)
        THEN [exc |-> "AssertionError", output_maps |-> output_maps]
        ELSE [exc |-> "none",
              output_maps |->
                 [output_maps EXCEPT !.arr =
                    tod2map_alldet_f(initialise_sky_maps(output_maps.npixsky),
                                     flatten(self.point_matrix, nt),
                                     flatten(self.pol_angs, nt), flatten(waferts, nt),
                                     self.diff_weight, self.sum_weight, nt,
                                     flatten(self.wafermask_pixel, shape1(self.wafermask_pixel)),
                                     npair \div 2, 1)]]

\* tod2map, lines 473-499: the shape checks, then the kernel on the
\* flattened arrays.  npixfp = npair / 2 is a true division: it equals a row
\* count only when twice that count is npair.
tod2map(self, waferts, output_maps) ==
    LET npair == shape0(waferts)
        nt == shape1(waferts)
    IN  IF \/ npair # 2 * shape0(self.point_matrix)
           \/ nt # shape1(self.point_matrix)
           \/ npair # 2 * shape0(self.pol_angs)
           \/ nt # shape1(self.pol_angs)
           \/ npair # 2 * Len(self.diff_weight)
           \/ npair # 2 * Len(self.sum_weight)
        THEN [exc |-> "AssertionError", output_maps |-> output_maps]
        ELSE [exc |-> "none",
              output_maps |->
                 [output_maps EXCEPT !.arr =
                    tod2map_alldet_f(@, flatten(self.point_matrix, nt),
                                     flatten(self.pol_angs, nt), flatten(waferts, nt),
                                     self.diff_weight, self.sum_weight, nt,
                                     flatten(self.wafermask_pixel, shape1(self.wafermask_pixel)),
                                     npair \div 2, 1)]]

----------------------------------------------------------------------------
(* Calls and their record *)

Snapshot(m, fe) == [arr |-> m.arr, fe |-> fe]

\* the record of a call on map m: what it returned or raised, and on what
Ret(op, r, m, fe) ==
    [op |-> op, exc |-> r.exc, I |-> r.I, Q |-> r.Q, U |-> r.U, at |-> Snapshot(m, fe)]

NoRet == Ret("none", Raised("none"), OutputSkyMap("flat", NoObspix, 0), "warn")

\* m.get_I()
GetI(id) ==
    /\ ret' = Ret("get_I", get_I(maps[id], fperr), maps[id], fperr)
    /\ maps' = [maps EXCEPT ![id] = get_I_self(maps[id], fperr)]
    /\ UNCHANGED <<fperr, nops, bpm, tod, ts>>

\* m.get_QU()
GetQU(id) ==
    /\ ret' = Ret("get_QU", get_QU(maps[id], fperr), maps[id], fperr)
    /\ maps' = [maps EXCEPT ![id] = get_QU_self(maps[id], fperr)]
    /\ UNCHANGED <<fperr, nops, bpm, tod, ts>>

\* m.get_IQU()
GetIQU(id) ==
    /\ ret' = Ret("get_IQU", get_IQU(maps[id], fperr), maps[id], fperr)
    /\ maps' = [maps EXCEPT ![id] = get_IQU_self(maps[id], fperr)]
    /\ UNCHANGED <<fperr, nops, bpm, tod, ts>>

----------------------------------------------------------------------------
(* The solver on bounded accumulator contents *)

NPixSolve == 2

T11 == <<1, 2048>>   \* 2^-11
T12 == <<1, 4096>>   \* 2^-12

\* per-pixel polarisation entries <<cc, cs, ss, dc, ds>>: a grid of small
\* values (one hit, several hits, zero and negative determinants) ...
QUGrid ==
    {<<Num(cc), Num(cs), Num(ss), One, Num(2)>> : cc \in {1, 2}, cs \in {0, 1}, ss \in {0, 1}}

\* ... and the cases around the singularity threshold and with NaN entries
QUEdge ==
    {<<T12, Zero, T12, One, Num(2)>>,         \* det = 2^-24: below eps
     <<T11, Zero, T12, One, Num(2)>>,         \* det = 2^-23: eps exactly
     <<Zero, T12, Zero, One, Num(2)>>,        \* det = -2^-24
     <<FNeg(T11), Zero, T12, One, Num(2)>>,   \* det = -2^-23
     <<NaN, Zero, One, One, Num(2)>>,         \* det NaN through cc
     <<One, Zero, NaN, One, Num(2)>>,         \* det NaN through ss
     <<One, Zero, Zero, NaN, Zero>>,          \* det 0, dc NaN
     <<One, Zero, One, One, NaN>>}            \* det 1, ds NaN

\* per-pixel intensity entries <<d, w>>
IGrid ==
    {<<Num(3), Num(-1)>>, <<Num(3), Zero>>, <<Num(3), NaN>>, <<NaN, Num(2)>>, <<Zero, Num(2)>>}

Pixel(d, w, q, nhit) ==
    [d |-> d, w |-> w, cc |-> q[1], cs |-> q[2], ss |-> q[3], dc |-> q[4], ds |-> q[5],
     nhit |-> nhit]

NeverHit == Pixel(Zero, Zero, <<Zero, Zero, Zero, Zero, Zero>>, Zero)

PixelCases ==
    {NeverHit}
    \cup {Pixel(Num(3), Num(2), q, Num(2)) : q \in QUGrid \cup QUEdge}
    \cup {Pixel(i[1], i[2], <<One, Zero, One, One, Num(2)>>, Num(2)) : i \in IGrid}

\* the accumulator holding the given pixels
Loaded(pixels) ==
    [OutputSkyMap("flat", NoObspix, Len(pixels)) EXCEPT
        !.arr = [k \in DOMAIN @ |-> [i \in 1..Len(pixels) |-> pixels[i][k]]]]

InitSolve ==
    /\ \E pixels \in [1..NPixSolve -> PixelCases] : maps = [id \in {1} |-> Loaded(pixels)]
    /\ fperr \in {"warn", "raise"}   \* np.seterr, set by the surrounding program
    /\ ret = NoRet
    /\ nops = 0
    /\ bpm = NoBpm
    /\ tod = NoTod
    /\ ts = <<>>

NextSolve == GetI(1) \/ GetQU(1) \/ GetIQU(1)

SpecSolve == InitSolve /\ [][NextSolve]_vars

----------------------------------------------------------------------------
(* Properties of the solver *)

\* the accumulator contents the last call was made on
A == ret.at.arr

\* the determinant cc * ss - cs * cs of pixel i at the last call
Det(i) == FSub(FMul(A.cc[i], A.ss[i]), FMul(A.cs[i], A.cs[i]))

\* |v| < 2^-23, resp. |v| >= 2^-23, for a number v = n / d
BelowEps(v) == IsNum(v) /\ Abs(v[1]) * EpsDen < v[2]
AtLeastEps(v) == IsNum(v) /\ Abs(v[1]) * EpsDen >= v[2]

QUReturned == ret.op \in {"get_QU", "get_IQU"} /\ ret.exc = "none"
IReturned == ret.op = "get_I" /\ ret.exc = "none"

\* C4: for every pixel whose determinant is NaN, get_QU returns Q = 0 and
\* U = 0, whatever the floating-point error settings.
C4_NaNDetGivesZero ==
    QUReturned =>
        \A i \in 1..Len(A.cc) : IsNaN(Det(i)) => ret.Q[i] = Zero /\ ret.U[i] = Zero

\* C5: for every pixel whose determinant is below 2^-23 in absolute value
\* (zero included), get_QU returns Q = 0 and U = 0, whatever dc and ds hold.
C5_SingularGivesZero ==
    QUReturned =>
        \A i \in 1..Len(A.cc) : BelowEps(Det(i)) => ret.Q[i] = Zero /\ ret.U[i] = Zero

\* C6: get_I returns an array as long as the accumulator, holding d / w at
\* every pixel whose weight is strictly positive and exactly 0 at every other.
C6_GetI ==
    IReturned =>
        /\ Len(ret.I) = Len(A.d)
        /\ \A i \in 1..Len(A.d) :
              IF A.w[i][1] > 0 /\ A.w[i][2] > 0
              THEN FMul(ret.I[i], A.w[i]) = A.d[i]
              ELSE ret.I[i] = Zero

C6_Witness ==
    /\ IReturned
    /\ \E i, j \in 1..Len(A.d) :
          /\ A.w[i] = Num(2) /\ A.d[i] = Num(3) /\ ret.I[i] = <<3, 2>>
          /\ A.w[j] = Num(-1) /\ A.d[j] = Num(3) /\ ret.I[j] = Zero

\* C7: at every pixel whose determinant is at least 2^-23 in absolute value
\* (and whose right-hand side dc, ds is a number), the Q and U returned solve
\* cc * Q + cs * U = dc and cs * Q + ss * U = ds.
C7_NormalEquations ==
    QUReturned =>
        \A i \in 1..Len(A.cc) :
            (AtLeastEps(Det(i)) /\ IsNum(A.dc[i]) /\ IsNum(A.ds[i])) =>
                /\ FAdd(FMul(A.cc[i], ret.Q[i]), FMul(A.cs[i], ret.U[i])) = A.dc[i]
                /\ FAdd(FMul(A.cs[i], ret.Q[i]), FMul(A.ss[i], ret.U[i])) = A.ds[i]

\* one pixel with a coupled system (cs # 0), one exactly at the threshold
C7_Witness ==
    /\ ret.op = "get_QU" /\ ret.exc = "none"
    /\ \E i, j \in 1..Len(A.cc) :
          /\ A.cs[i] = One /\ Det(i) = One /\ ret.Q[i] = Num(-1) /\ ret.U[i] = Num(3)
          /\ Det(j) = thresh /\ ret.Q[j] = Num(2048) /\ ret.U[j] = Num(8192)

SolverStep == GetI(1) \/ GetQU(1) \/ GetIQU(1)

\* C8 as stated: a solver call leaves every attribute of the object unchanged.
C8_SolverChangesNothing == [][SolverStep => maps' = maps]_vars

\* C8 amended: a solver call leaves the eight arrays, the projection, the
\* observed-pixel set and the pixel count unchanged; get_I changes nothing at
\* all; get_QU and get_IQU assign the attribute idet only; and a call of the
\* same solver on the same contents and error settings returns the same maps.
C8_SolverReadsAccumulator ==
    [][SolverStep =>
          /\ [maps'[1] EXCEPT !.idet = NoIdet] = [maps[1] EXCEPT !.idet = NoIdet]
          /\ (ret'.op = "get_I" => maps' = maps)
          /\ ((ret'.op = ret.op /\ ret'.at = ret.at) => ret' = ret)]_vars

C8_Witness ==
    /\ ret.op = "get_IQU" /\ ret.exc = "none"
    /\ maps[1].idet.set
    /\ maps[1].arr = A
    /\ \A i \in 1..Len(A.cc) : IsNum(ret.Q[i]) /\ ret.Q[i] # Zero /\ ret.I[i] = <<3, 2>>

----------------------------------------------------------------------------
(* Map combiner *)

\* np.all(self.obspix == other.obspix), line 701.  None == None is True; an
\* array compared with None, or with an array of another length that
\* broadcasts (length 1), is compared element by element, and np.all of an
\* empty result is True; lengths that do not broadcast do not compare equal.
obspix_all_equal(a, b) ==
    IF ~a.given /\ ~b.given THEN TRUE
    ELSE IF ~a.given \/ ~b.given THEN Len(a.pix) + Len(b.pix) = 0
    ELSE IF Len(a.pix) = Len(b.pix) THEN \A i \in 1..Len(a.pix) : a.pix[i] = b.pix[i]
    ELSE IF Len(a.pix) = 1 THEN \A i \in 1..Len(b.pix) : b.pix[i] = a.pix[1]
    ELSE IF Len(b.pix) = 1 THEN \A i \in 1..Len(a.pix) : a.pix[i] = b.pix[1]
    ELSE FALSE

\* a += b is defined when b has a's length or broadcasts to it (length 1)
can_iadd(a, b) == Len(b) = Len(a) \/ Len(b) = 1

\* a = a + b: the sum goes to a new array and self's array is left as it was
iadd_rebound(a, b) == a

\* a += b, line 708: the array a after the in-place addition
iadd(a, b) == [i \in 1..Len(a) |-> FAdd(a[i], IF Len(b) = Len(a) THEN b[i] ELSE b[1])]

\* the loop of lines 705-708 over the names left, on self as it is by now;
\* aliased: other is self
RECURSIVE coadd_loop(_, _, _, _)
coadd_loop(names, self, other, aliased) ==
    IF names = <<>> THEN [exc |-> "none", self |-> self]
    ELSE LET k == Head(names)
             a == self.arr[k]
             b == IF aliased THEN self.arr[k] ELSE other.arr[k]
         IN  IF ~can_iadd(a, b) THEN [exc |-> "ValueError", self |-> self]
             ELSE coadd_loop(Tail(names), [self EXCEPT !.arr[k] = iadd(a, b)], other, aliased)

\* OutputSkyMap.coadd, lines 701-708
coadd(self, other, names, aliased) ==
    IF ~obspix_all_equal(self.obspix, other.obspix)
    THEN [exc |-> "AssertionError", self |-> self]
    ELSE coadd_loop(names, self, other, aliased)

MaxCoadds == 1

\* maps[s].coadd(maps[o], to_coadd)
Coadd(s, o, names) ==
    /\ nops < MaxCoadds
    /\ LET r == coadd(maps[s], maps[o], names, s = o)
       IN  /\ maps' = [maps EXCEPT ![s] = r.self]
           /\ ret' = [NoRet EXCEPT !.op = "coadd", !.exc = r.exc]
           /\ nops' = IF r.exc = "none" THEN nops + 1 ELSE nops
    /\ UNCHANGED <<fperr, bpm, tod, ts>>

----------------------------------------------------------------------------
(* The combiner on bounded accumulators *)

\* global pixel identifiers are 0 .. NPixIds - 1
NPixIds == 2

Names == {ArrayNames[i] : i \in 1..Len(ArrayNames)}

\* sorted, duplicate-free sequences of global pixel identifiers
SortedSeqs ==
    {s \in UNION {[1..n -> 0..(NPixIds - 1)] : n \in 0..NPixIds} :
        \A i \in 1..(Len(s) - 1) : s[i] < s[i + 1]}

\* the objects OutputSkyMap(...) constructs
Layouts ==
    {OutputSkyMap("healpix", Obspix(s), 0) : s \in SortedSeqs}
    \cup {OutputSkyMap("flat", NoObspix, n) : n \in 0..NPixIds}

NameIndex(k) == CHOOSE i \in 1..Len(ArrayNames) : ArrayNames[i] = k

\* accumulated contents: nothing yet, one everywhere (unit hit counts), or a
\* different value in every entry
Contents(what, k, i) ==
    CASE what = "zero" -> Zero
      [] what = "ones" -> One
      [] what = "ramp" -> Num(10 * NameIndex(k) + i)

Filled(m, what) ==
    [m EXCEPT !.arr = [k \in Names |-> [i \in 1..m.npixsky |-> Contents(what, k, i)]]]

\* to_coadd.split(' '): the default list, and two lists of two names
NameLists == {ArrayNames, SubSeq(ArrayNames, 1, 2), SubSeq(ArrayNames, 7, 8)}

InitCoadd ==
    /\ maps \in [{1, 2} -> {Filled(m, what) : m \in Layouts, what \in {"zero", "ones", "ramp"}}]
    /\ fperr = "warn"
    /\ ret = NoRet
    /\ nops = 0
    /\ bpm = NoBpm
    /\ tod = NoTod
    /\ ts = <<>>

NextCoadd == \E s \in {1, 2}, o \in {1, 2}, names \in NameLists : Coadd(s, o, names)

SpecCoadd == InitCoadd /\ [][NextCoadd]_vars

----------------------------------------------------------------------------
(* Properties of the combiner *)

InList(k, names) == \E i \in 1..Len(names) : names[i] = k

\* the two accumulators have the same observed-pixel set and so the same
\* number of pixels
SameLayout(a, b) == a.obspix = b.obspix /\ a.npixsky = b.npixsky

\* C9: a.coadd(b) on accumulators with the same observed-pixel set replaces
\* each array of a named in to_coadd by the element-wise sum of a's and b's,
\* leaves the arrays not named as they were, and leaves b as it was.
C9_CoaddSums ==
    [][\A s \in {1, 2}, o \in {1, 2}, names \in NameLists :
          (Coadd(s, o, names) /\ SameLayout(maps[s], maps[o])) =>
              /\ ret'.exc = "none"
              /\ \A k \in Names :
                    maps'[s].arr[k] =
                        IF InList(k, names)
                        THEN [i \in 1..maps[s].npixsky |->
                                 FAdd(maps[s].arr[k][i], maps[o].arr[k][i])]
                        ELSE maps[s].arr[k]
              /\ [maps'[s] EXCEPT !.arr = maps[s].arr] = maps[s]
              /\ (o # s => maps'[o] = maps[o])]_vars

C9_Witness ==
    /\ ret.op = "coadd" /\ ret.exc = "none" /\ nops = 1
    /\ maps[1].obspix = Obspix(<<0, 1>>) /\ maps[2].obspix = Obspix(<<0, 1>>)
    /\ maps[2] = Filled(maps[2], "ramp")
    /\ \A k \in Names :
          maps[1].arr[k] = IF k \in {"ss", "nhit"}
                           THEN [i \in 1..2 |-> FAdd(One, Contents("ramp", k, i))]
                           ELSE <<One, One>>

\* C10: a.coadd(b) on accumulators whose observed-pixel sets differ fails
\* and modifies neither.
C10_CoaddRejectsDifferentObspix ==
    [][\A s \in {1, 2}, o \in {1, 2}, names \in NameLists :
          (/\ Coadd(s, o, names)
           /\ maps[s].obspix.given /\ maps[o].obspix.given
           /\ maps[s].obspix.pix # maps[o].obspix.pix) =>
              (ret'.exc # "none" /\ maps' = maps)]_vars

\* C11: a.coadd(b) between accumulators whose arrays have different lengths
\* fails and leaves every array of a unchanged; b is never broadcast into a.
C11_CoaddRejectsDifferentLengths ==
    [][\A s \in {1, 2}, o \in {1, 2}, names \in NameLists :
          (Coadd(s, o, names) /\ maps[s].npixsky # maps[o].npixsky) =>
              (ret'.exc # "none" /\ maps'[s].arr = maps[s].arr)]_vars

----------------------------------------------------------------------------
(* Distributed combiner *)

\* The workers of MPI.COMM_WORLD.  Worker w calls coadd_MPI on maps[w]; the
\* accumulator it passes as other is maps[w] itself or its second one,
\* maps[Second(w)].
Workers == {1, 2}
Second(w) == w + Cardinality(Workers)

\* a + b on arrays, with numpy's broadcasting of a length-1 operand
can_add(a, b) == Len(a) = Len(b) \/ Len(a) = 1 \/ Len(b) = 1

np_add(a, b) ==
    [i \in 1..(IF Len(a) = 1 THEN Len(b) ELSE Len(a)) |->
        FAdd(IF Len(a) = 1 THEN a[1] ELSE a[i], IF Len(b) = 1 THEN b[1] ELSE b[i])]

\* xs[1] + ... + xs[n]
RECURSIVE reduce_sum(_, _)
reduce_sum(xs, n) == IF n = 1 THEN xs[1] ELSE np_add(reduce_sum(xs, n - 1), xs[n])

\* the contributions xs[1] .. xs[n] can be summed in rank order
RECURSIVE can_reduce(_, _)
can_reduce(xs, n) ==
    IF n = 1 THEN TRUE
    ELSE can_reduce(xs, n - 1) /\ can_add(reduce_sum(xs, n - 1), xs[n])

\* MPI.COMM_WORLD.allreduce(x, op=MPI.SUM), lines 736-737: every worker
\* receives the sum of the workers' contributions xs
allreduce(xs) == reduce_sum(xs, Cardinality(Workers))

\* the loop of lines 735-737 run by all workers together over the names left
RECURSIVE coadd_MPI_loop(_, _, _)
coadd_MPI_loop(names, selves, others) ==
    IF names = <<>> THEN [exc |-> "none", selves |-> selves]
    ELSE LET k == Head(names)
             xs == [w \in Workers |-> others[w].arr[k]]
         IN  IF ~can_reduce(xs, Cardinality(Workers))
             THEN [exc |-> "ValueError", selves |-> selves]
             ELSE coadd_MPI_loop(Tail(names),
                     [w \in Workers |-> [selves[w] EXCEPT !.arr[k] = allreduce(xs)]],
                     others)

\* OutputSkyMap.coadd_MPI, lines 734-737, on every worker
coadd_MPI(selves, others, names) == coadd_MPI_loop(names, selves, others)

\* every worker w calls maps[w].coadd_MPI(other, MPI, to_coadd); passes[w]
\* tells whether its other is maps[w] ("self") or maps[Second(w)]
CoaddMPI(names, passes) ==
    /\ nops < MaxCoadds
    /\ LET others == [w \in Workers |->
                         IF passes[w] = "self" THEN maps[w] ELSE maps[Second(w)]]
           r == coadd_MPI([w \in Workers |-> maps[w]], others, names)
       IN  /\ maps' = [id \in DOMAIN maps |-> IF id \in Workers THEN r.selves[id] ELSE maps[id]]
           /\ ret' = [NoRet EXCEPT !.op = "coadd_MPI", !.exc = r.exc]
           /\ nops' = IF r.exc = "none" THEN nops + 1 ELSE nops
    /\ UNCHANGED <<fperr, bpm, tod, ts>>

Passes == [Workers -> {"self", "other"}]

\* two accumulators per worker, of one or two pixels each
InitMPI ==
    /\ \E n \in [1..(2 * Cardinality(Workers)) -> 1..2], what \in [1..(2 * Cardinality(Workers)) -> {"ones", "ramp"}] :
          maps = [id \in 1..(2 * Cardinality(Workers)) |->
                     Filled(OutputSkyMap("flat", NoObspix, n[id]), what[id])]
    /\ fperr = "warn"
    /\ ret = NoRet
    /\ nops = 0
    /\ bpm = NoBpm
    /\ tod = NoTod
    /\ ts = <<>>

NextMPI == \E names \in NameLists, passes \in Passes : CoaddMPI(names, passes)

SpecMPI == InitMPI /\ [][NextMPI]_vars

\* all the accumulators of all the workers have the same number of pixels
Congruent == \A id \in DOMAIN maps : maps[id].npixsky = maps[1].npixsky

\* C12: when every worker calls coadd_MPI with the same name list, each named
\* array of each worker's receiving accumulator becomes the element-wise sum
\* over the workers of that array in their receiving accumulators.
C12_CoaddMPISumsLocals ==
    [][\A names \in NameLists, passes \in Passes :
          (CoaddMPI(names, passes) /\ Congruent) =>
              \A w \in Workers : \A k \in Names :
                 InList(k, names) =>
                    maps'[w].arr[k] =
                        [i \in 1..maps[w].npixsky |->
                            FAdd(maps[1].arr[k][i], maps[2].arr[k][i])]]_vars

----------------------------------------------------------------------------
(* The pixel indexer on bounded inputs *)

MaxSamples == 2

\* global pixel identifiers at nside 16 (0 .. 3071) the samples and the
\* observed-pixel sets are drawn from
BpmPixIds == {0, 420, 1200, 2592, 3071}

BpmSorted ==
    {s \in UNION {[1..n -> BpmPixIds] : n \in 0..3} : \A i \in 1..(Len(s) - 1) : s[i] < s[i + 1]}

\* plane coordinates: the multiples of 1/2 up to MaxCoord / 2 in absolute value
MaxCoord == 6
Coords == {Rat(k, 2) : k \in (-MaxCoord)..MaxCoord}

\* <<pixel_size, xmin = ymin>>, as map2tod passes them (ymin = xmin = -width / 2)
FlatGrids == {<<One, Num(-1)>>, <<Num(2), Zero>>}

InitBPM ==
    /\ maps = <<>>
    /\ fperr = "warn"
    /\ ret = NoRet
    /\ nops = 0
    /\ tod = NoTod
    /\ ts = <<>>
    /\ \/ \E n \in 1..MaxSamples, obspix \in BpmSorted, cut \in BOOLEAN :
             \E g \in [1..n -> BpmPixIds] :
                bpm = BpmCall("healpix", g, Obspix(obspix), cut, <<>>, <<>>, Zero, One, 0)
       \/ \E n \in 1..(MaxSamples - 1), grid \in FlatGrids, npr \in 1..2 :
             \E x \in [1..n -> Coords], y \in [1..n -> Coords] :
                bpm = BpmCall("flat", [t \in 1..n |-> 0], NoObspix, TRUE, x, y,
                              grid[2], grid[1], npr)

NextBPM == BuildPointingMatrix

SpecBPM == InitBPM /\ [][NextBPM]_vars

\* sample t of the call lies in the grid extent along one axis
InExtent(v, vmin, c) ==
    LET lo == FSub(vmin, FDiv(c.pixel_size, Num(2)))
        hi == FAdd(lo, FMul(Num(c.npix_per_row), c.pixel_size))
    IN  ~FLt(v, lo) /\ FLt(v, hi)

\* the grid cell of v along one axis: the k with lo + k * size <= v < lo + (k + 1) * size
Cell(v, vmin, c) ==
    FFloor(FDiv(FSub(v, FSub(vmin, FDiv(c.pixel_size, Num(2)))), c.pixel_size))

\* C2: in flat projection every sample outside the grid extent gets -1 and
\* every sample inside gets ix * npix_per_row + iy, in [0, npix_per_row^2).
C2_FlatSentinel ==
    (bpm.called /\ bpm.projection = "flat") =>
        /\ Len(bpm.out.index_local) = Len(bpm.x)
        /\ \A t \in 1..Len(bpm.x) :
              IF InExtent(bpm.x[t], bpm.xmin, bpm) /\ InExtent(bpm.y[t], bpm.ymin, bpm)
              THEN /\ bpm.out.index_local[t] =
                        Cell(bpm.x[t], bpm.xmin, bpm) * bpm.npix_per_row
                        + Cell(bpm.y[t], bpm.ymin, bpm)
                   /\ bpm.out.index_local[t] \in 0..(bpm.npix_per_row * bpm.npix_per_row - 1)
              ELSE bpm.out.index_local[t] = -1

InSeq(v, s) == \E i \in 1..Len(s) : s[i] = v

\* C3: in healpix projection with a sorted, duplicate-free obspix and
\* outliers cut, every sample gets the position of its global identifier in
\* obspix, or -1 when obspix does not hold it; one index per sample.
C3_HealpixLocalIndex ==
    (bpm.called /\ bpm.projection = "healpix" /\ bpm.obspix.given /\ bpm.cut_outliers) =>
        /\ bpm.out.exc = "none"
        /\ Len(bpm.out.index_local) = Len(bpm.index_global)
        /\ \A t \in 1..Len(bpm.index_global) :
              LET L == bpm.out.index_local[t]
              IN  IF InSeq(bpm.index_global[t], bpm.obspix.pix)
                  THEN L \in 0..(Len(bpm.obspix.pix) - 1)
                       /\ bpm.obspix.pix[L + 1] = bpm.index_global[t]
                  ELSE L = -1

C3_Witness ==
    /\ bpm.called /\ bpm.projection = "healpix" /\ bpm.cut_outliers
    /\ bpm.obspix = Obspix(<<0, 1200, 2592>>)
    /\ bpm.index_global = <<2592, 420>>
    /\ bpm.out.index_local = <<2, -1>>

----------------------------------------------------------------------------
(* The round trip on bounded scans *)

\* d[ch] = tod.map2tod(ch), for a channel not yet scanned
Map2Tod(ch) ==
    /\ ch + 1 \in DOMAIN ts
    /\ ts[ch + 1] = <<>>
    /\ ts' = [ts EXCEPT ![ch + 1] = map2tod(tod, ch)]
    /\ tod' = map2tod_self(tod, ch)
    /\ UNCHANGED <<maps, fperr, ret, nops, bpm>>

MaxTod2Maps == 1

\* tod.tod2map(d, maps[id]) on the timestreams of all channels
Tod2Map(id) ==
    /\ nops < MaxTod2Maps
    /\ \A c \in DOMAIN ts : ts[c] # <<>>
    /\ LET r == tod2map(tod, ts, maps[id])
       IN  /\ maps' = [maps EXCEPT ![id] = r.output_maps]
           /\ ret' = [NoRet EXCEPT !.op = "tod2map", !.exc = r.exc]
           /\ nops' = IF r.exc = "none" THEN nops + 1 ELSE nops
    /\ UNCHANGED <<fperr, bpm, tod, ts>>

NSamples == 2

\* The sky positions a detector points at: the global pixel identifier of
\* the position and its plane coordinates.  The first two lie in different
\* input pixels and in the same flat pixel; the last lies off the flat grid.
Positions ==
    <<[pix |-> 0, x |-> Rat(-3, 4), y |-> Zero],
      [pix |-> 1, x |-> Rat(-1, 4), y |-> Zero],
      [pix |-> 3, x |-> Rat(3, 2), y |-> Zero]>>

\* the input sky: a different value in every pixel and every component
InputSky(do_pol) ==
    [I |-> [g \in 1..4 |-> Num(10 + g)],
     Q |-> [g \in 1..4 |-> Num(20 + g)],
     U |-> [g \in 1..4 |-> Num(30 + g)],
     do_pol |-> do_pol]

\* pointing of the channels: the two detectors of a pair point together
PointingOf(where, npair, nsamples) ==
    [c \in 1..(2 * npair) |->
        LET p == (c + 1) \div 2
        IN  [pix |-> [t \in 1..nsamples |-> Positions[where[p][t]].pix],
             x |-> [t \in 1..nsamples |-> Positions[where[p][t]].x],
             y |-> [t \in 1..nsamples |-> Positions[where[p][t]].y],
             pa |-> [t \in 1..nsamples |-> 2]]]

\* <<projection, obspix>>
Projections == {<<"flat", <<>>>>, <<"healpix", <<0, 1, 2>>>>, <<"healpix", <<1, 3>>>>}

InitTod ==
    /\ fperr = "warn"
    /\ ret = NoRet
    /\ nops = 0
    /\ bpm = NoBpm
    /\ \E proj \in Projections, do_pol \in BOOLEAN, npair \in {1, 2}, hwpstep \in {0, 1} :
          \E where \in [1..npair -> [1..NSamples -> 1..Len(Positions)]] :
             /\ tod = TimeOrderedDataPairDiff(
                          proj[1], InputSky(do_pol), npair, NSamples, One, One, proj[2],
                          [t \in 1..NSamples |-> (t - 1) * hwpstep],
                          [c \in 1..(2 * npair) |-> IF c % 2 = 1 THEN 90 ELSE 0],
                          PointingOf(where, npair, NSamples))
             /\ ts = [c \in 1..(2 * npair) |-> <<>>]
             /\ maps = [id \in {1} |->
                          OutputSkyMap(proj[1],
                                       IF proj[1] = "healpix" THEN Obspix(proj[2]) ELSE NoObspix,
                                       tod.npixsky)]

NextTod ==
    \/ \E ch \in 0..3 : Map2Tod(ch)
    \/ Tod2Map(1)
    \/ (ret.op # "none" /\ GetI(1))
    \/ (ret.op # "none" /\ GetQU(1))

SpecTod == InitTod /\ [][NextTod]_vars

\* the scan has been projected into maps[1] and a solver has returned
RoundTrip(op) == nops = 1 /\ tod.do_pol /\ ret.op = op /\ ret.exc = "none" /\ A = maps[1].arr

\* the global pixels read by the samples that fell into local pixel L
InputPixels(L) ==
    {tod.pointing[2 * pt[1] - 1].pix[pt[2]] :
        pt \in {qt \in (1..tod.npair) \X (1..tod.nsamples) :
                   tod.point_matrix[qt[1]][qt[2]] = L}}

Hit == {L \in 0..(tod.npixsky - 1) : A.w[L + 1] # Zero}

\* C1: after map2tod on every channel and tod2map of the stacked timestreams
\* into a fresh accumulator, get_I() equals the input I and get_QU() the
\* input Q and U at every pixel with nonzero weight.
C1_RoundTrip ==
    /\ RoundTrip("get_I") =>
          \A L \in Hit : \A g \in InputPixels(L) : ret.I[L + 1] = tod.I[g + 1]
    /\ RoundTrip("get_QU") =>
          \A L \in Hit : \A g \in InputPixels(L) :
             ret.Q[L + 1] = tod.Q[g + 1] /\ ret.U[L + 1] = tod.U[g + 1]

\* C1, as the code has it: at a pixel with nonzero weight whose samples all
\* read one input pixel, get_I() equals the input I, and get_QU() equals the
\* input Q and U when the pixel's determinant is at least the threshold;
\* below the threshold get_QU() gives zero.
C1_RoundTripWhereSolvable ==
    /\ RoundTrip("get_I") =>
          \A L \in Hit : \A g \in 0..3 :
             InputPixels(L) = {g} => ret.I[L + 1] = tod.I[g + 1]
    /\ RoundTrip("get_QU") =>
          \A L \in Hit :
             IF AtLeastEps(Det(L + 1))
             THEN \A g \in 0..3 :
                     InputPixels(L) = {g} =>
                        ret.Q[L + 1] = tod.Q[g + 1] /\ ret.U[L + 1] = tod.U[g + 1]
             ELSE ret.Q[L + 1] = Zero /\ ret.U[L + 1] = Zero

C1_Witness ==
    /\ RoundTrip("get_QU") /\ tod.npair = 2
    /\ \E L \in Hit :
          /\ AtLeastEps(Det(L + 1)) /\ InputPixels(L) = {1}
          /\ A.nhit[L + 1] = Num(3)
          /\ ret.Q[L + 1] = Num(22) /\ ret.U[L + 1] = Num(32)

----------------------------------------------------------------------------
(* Scans accumulated one after another *)

\* the pass over the channels of a constructed object,
\* d = np.array([tod.map2tod(det) for det in range(2 * tod.npair)]):
\* the object after it, from channel ch on ...
RECURSIVE scan_channels(_, _)
scan_channels(self, ch) ==
    IF ch >= 2 * self.npair THEN self ELSE scan_channels(map2tod_self(self, ch), ch + 1)

\* ... and the stacked timestreams d
stacked(self) == [c \in 1..(2 * self.npair) |-> map2tod(self, c - 1)]

\* pointing of a scan: the first pair moves on by one position per sample
\* from start[1], a second pair stays at start[2]
SweepOf(start, npair) ==
    [p \in 1..npair |->
        [t \in 1..NSamples |->
            IF p = 1 THEN ((start[1] + t - 2) % Len(Positions)) + 1 ELSE start[2]]]

\* the timestream mask: ones (get_timestream_masks), or with the first
\* sample of the first pair flagged by the caller
MaskOf(flagged, npair) ==
    [p \in 1..npair |-> [t \in 1..NSamples |-> IF flagged /\ p = 1 /\ t = 1 THEN 0 ELSE 1]]

\* the objects constructed for the scans of one patch
Scans(projection, obspix) ==
    {[TimeOrderedDataPairDiff(
          projection, InputSky(TRUE), npair, NSamples, One, One, obspix,
          [t \in 1..NSamples |-> t - 1],
          [c \in 1..(2 * npair) |-> IF c % 2 = 1 THEN 90 ELSE 0],
          PointingOf(SweepOf(start, npair), npair, NSamples))
      EXCEPT !.wafermask_pixel = MaskOf(flagged, npair)] :
        npair \in {1, 2}, start \in [1..2 -> 1..Len(Positions)], flagged \in BOOLEAN}

MaxScans == 2

\* one scan of the driver: the object is constructed, every channel is
\* scanned, and the stacked timestreams are accumulated into maps[id]
ScanAndAccumulate(id, scan) ==
    /\ nops < MaxScans
    /\ tod' = scan_channels(scan, 0)
    /\ ts' = stacked(scan)
    /\ LET r == tod2map(tod', ts', maps[id])
       IN  /\ maps' = [maps EXCEPT ![id] = r.output_maps]
           /\ ret' = [NoRet EXCEPT !.op = "tod2map", !.exc = r.exc]
           /\ nops' = IF r.exc = "none" THEN nops + 1 ELSE nops
    /\ UNCHANGED <<fperr, bpm>>

InitAcc ==
    /\ fperr = "warn"
    /\ ret = NoRet
    /\ nops = 0
    /\ bpm = NoBpm
    /\ tod = NoTod
    /\ ts = <<>>
    /\ \E proj \in Projections :
          maps = [id \in {1} |->
                     OutputSkyMap(proj[1],
                                  IF proj[1] = "healpix" THEN Obspix(proj[2]) ELSE NoObspix,
                                  get_npixsky(proj[1], One, One, proj[2]))]

NextAcc ==
    \E scan \in Scans(maps[1].projection, maps[1].obspix.pix) : ScanAndAccumulate(1, scan)

SpecAcc == InitAcc /\ [][NextAcc]_vars

\* the samples of the object o that count for local pixel L: those pointed
\* at L and not flagged
Counted(o, L) ==
    {pt \in (1..o.npair) \X (1..o.nsamples) :
        o.point_matrix[pt[1]][pt[2]] = L /\ o.wafermask_pixel[pt[1]][pt[2]] # 0}

\* C13: a sample whose pointing-matrix entry is -1 or whose mask is 0 changes
\* no array and no hit count: each pixel's hit count and weight grow by the
\* number of unflagged samples pointed at it, and a pixel with no such sample,
\* the last pixel included, keeps all its entries.
C13_SentinelAndMaskExcluded ==
    [][(ret'.op = "tod2map" /\ nops' = nops + 1) =>
          \A i \in 1..maps[1].npixsky :
             LET n == Cardinality(Counted(tod', i - 1))
             IN  /\ maps'[1].arr.nhit[i] = FAdd(maps[1].arr.nhit[i], Num(n))
                 /\ maps'[1].arr.w[i] = FAdd(maps[1].arr.w[i], Num(n))
                 /\ (n = 0 => \A k \in Names : maps'[1].arr[k][i] = maps[1].arr[k][i])]_vars

C13_Witness ==
    /\ ret.op = "tod2map" /\ nops = 1 /\ tod.npair = 2
    /\ \E t \in 1..tod.nsamples : tod.point_matrix[1][t] = -1
    /\ tod.wafermask_pixel[1][1] = 0 /\ tod.point_matrix[1][1] >= 0
    /\ maps[1].arr.nhit[maps[1].npixsky] = Zero
    /\ \E i \in 1..maps[1].npixsky : maps[1].arr.nhit[i] = Num(2)

----------------------------------------------------------------------------
(* tod2map on arrays of other shapes *)

DropLast(x) == SubSeq(x, 1, Len(x) - 1)

DropLastColumn(m) == [r \in 1..Len(m) |-> DropLast(m[r])]

\* the timestream array the caller passes, made from the stacked timestreams d
WafertsShapes == {"stacked", "drop_row", "drop_pair", "add_row", "drop_sample"}

Waferts(d, v) ==
    CASE v = "stacked" -> d
      [] v = "drop_row" -> DropLast(d)
      [] v = "drop_pair" -> DropLast(DropLast(d))
      [] v = "add_row" -> Append(d, d[1])
      [] v = "drop_sample" -> DropLastColumn(d)

\* the object as the caller left it: untouched, or with one of its arrays
\* replaced by one of another shape, or trimmed of its last sample throughout
ObjectShapes == {"scanned", "pm_short", "pol_short", "pol_row", "dw_short", "sw_long", "trimmed"}

Reshaped(o, v) ==
    CASE v = "scanned" -> o
      [] v = "pm_short" -> [o EXCEPT !.point_matrix = DropLastColumn(@)]
      [] v = "pol_short" -> [o EXCEPT !.pol_angs = DropLastColumn(@)]
      [] v = "pol_row" -> [o EXCEPT !.pol_angs = DropLast(@)]
      [] v = "dw_short" -> [o EXCEPT !.diff_weight = DropLast(@)]
      [] v = "sw_long" -> [o EXCEPT !.sum_weight = Append(@, One)]
      [] v = "trimmed" -> [o EXCEPT !.point_matrix = DropLastColumn(@),
                                    !.pol_angs = DropLastColumn(@),
                                    !.wafermask_pixel = DropLastColumn(@),
                                    !.nsamples = @ - 1]

\* a two-dimensional array with at least one row and one column
HasEntries(m) == Len(m) >= 1 /\ Len(m[1]) >= 1

\* tod.tod2map(waferts, maps[id]) with the arrays shaped as chosen
Tod2MapShaped(id, wv, ov) ==
    /\ nops < MaxTod2Maps
    /\ Len(ts) >= 3 \/ wv \notin {"drop_pair"}
    /\ HasEntries(Waferts(ts, wv))
    /\ Len(tod.pol_angs) >= 2 \/ ov # "pol_row"
    /\ HasEntries(Reshaped(tod, ov).point_matrix) /\ HasEntries(Reshaped(tod, ov).pol_angs)
    /\ tod' = Reshaped(tod, ov)
    /\ ts' = Waferts(ts, wv)
    /\ LET r == tod2map(tod', ts', maps[id])
       IN  /\ maps' = [maps EXCEPT ![id] = r.output_maps]
           /\ ret' = [NoRet EXCEPT !.op = "tod2map", !.exc = r.exc]
    /\ nops' = nops + 1
    /\ UNCHANGED <<fperr, bpm>>

InitShape ==
    /\ fperr = "warn"
    /\ ret = NoRet
    /\ nops = 0
    /\ bpm = NoBpm
    /\ \E proj \in Projections :
          /\ maps = [id \in {1} |->
                        OutputSkyMap(proj[1],
                                     IF proj[1] = "healpix" THEN Obspix(proj[2]) ELSE NoObspix,
                                     get_npixsky(proj[1], One, One, proj[2]))]
          /\ \E scan \in Scans(proj[1], proj[2]) :
                tod = scan_channels(scan, 0) /\ ts = stacked(scan)

NextShape == \E wv \in WafertsShapes, ov \in ObjectShapes : Tod2MapShaped(1, wv, ov)

SpecShape == InitShape /\ [][NextShape]_vars

\* the pointing matrix and the angle array of o are pairs x samples and its
\* weights one per pair, for the pairs and samples of the timestream array w
\* (rows = 2 x pairs, columns = samples)
Conform(o, w) ==
    \E P \in 1..Len(w) :
        /\ Len(w) = 2 * P
        /\ Len(o.point_matrix) = P /\ Len(o.pol_angs) = P
        /\ \A p \in 1..P :
              Len(o.point_matrix[p]) = Len(w[1]) /\ Len(o.pol_angs[p]) = Len(w[1])
        /\ Len(o.sum_weight) = P /\ Len(o.diff_weight) = P

----------------------------------------------------------------------------
(* Two scans into one accumulator *)

\* the accumulator of maps[id] as constructed, before any scan
Fresh(id) == OutputSkyMap(maps[id].projection, maps[id].obspix, maps[id].npixsky)

\* what a scan (object and stacked timestreams) accumulates into a fresh accumulator
Alone(id, o, w) == tod2map(o, w, Fresh(id)).output_maps

\* the second scan of a run: the first scan is the object and timestreams of
\* the state left, the second those of the state entered
SecondScan == ret'.op = "tod2map" /\ nops = 1 /\ nops' = 2

\* C15: two scans accumulated one after the other into one accumulator leave
\* in each array the element-wise sum of what each scan accumulates into an
\* empty accumulator; accumulating them in the other order leaves the same
\* arrays, and so does accumulating them into two accumulators and coadding.
C15_AdditiveAnyOrder ==
    [][SecondScan =>
          \E a \in {Alone(1, tod, ts)}, b \in {Alone(1, tod', ts')} :
              /\ maps[1] = a
              /\ \A k \in Names : \A i \in 1..maps[1].npixsky :
                    maps'[1].arr[k][i] = FAdd(a.arr[k][i], b.arr[k][i])
              /\ tod2map(tod, ts, b).output_maps = maps'[1]
              /\ coadd(a, b, ArrayNames, FALSE).exc = "none"
              /\ coadd(a, b, ArrayNames, FALSE).self = maps'[1]
              /\ coadd(b, a, ArrayNames, FALSE).self = maps'[1]]_vars

\* two different scans, each with a sample in the patch, have been accumulated
\* and share a pixel
C15_Witness ==
    /\ nops = 2 /\ ret.op = "tod2map" /\ ret.exc = "none"
    /\ \E i \in 1..maps[1].npixsky :
          /\ maps[1].arr.nhit[i] = Num(3)
          /\ Cardinality(Counted(tod, i - 1)) = 1
    /\ \E i \in 1..maps[1].npixsky : FNe(maps[1].arr.d[i], Zero)

----------------------------------------------------------------------------
(* What map2tod leaves in the object *)

\* objects whose pairs sweep the positions in turn, pair p starting at start + p
InitRows ==
    /\ fperr = "warn"
    /\ ret = NoRet
    /\ nops = 0
    /\ bpm = NoBpm
    /\ \E proj \in Projections, do_pol \in BOOLEAN, npair \in {1, 2}, hwpstep \in {0, 1} :
          \E start \in 1..Len(Positions) :
             /\ tod = TimeOrderedDataPairDiff(
                          proj[1], InputSky(do_pol), npair, NSamples, One, One, proj[2],
                          [t \in 1..NSamples |-> (t - 1) * hwpstep],
                          [c \in 1..(2 * npair) |-> IF c % 2 = 1 THEN 90 ELSE 0],
                          PointingOf([p \in 1..npair |-> [t \in 1..NSamples |->
                                         ((start + p + t) % Len(Positions)) + 1]],
                                     npair, NSamples))
             /\ ts = [c \in 1..(2 * npair) |-> <<>>]
             /\ maps = [id \in {1} |->
                          OutputSkyMap(proj[1],
                                       IF proj[1] = "healpix" THEN Obspix(proj[2]) ELSE NoObspix,
                                       tod.npixsky)]

\* tod.tod2map(waferts, maps[id]) before every channel has been scanned:
\* waferts holds the timestreams scanned so far and ones for the others
Tod2MapEarly(id) ==
    /\ nops < MaxTod2Maps
    /\ \E c \in DOMAIN ts : ts[c] = <<>>
    /\ LET waferts == [c \in DOMAIN ts |->
                          IF ts[c] = <<>> THEN [t \in 1..tod.nsamples |-> One] ELSE ts[c]]
           r == tod2map(tod, waferts, maps[id])
       IN  /\ maps' = [maps EXCEPT ![id] = r.output_maps]
           /\ ret' = [NoRet EXCEPT !.op = "tod2map", !.exc = r.exc]
    /\ nops' = nops + 1
    /\ UNCHANGED <<fperr, bpm, tod, ts>>

NextRows ==
    \/ \E ch \in 0..3 : Map2Tod(ch)
    \/ Tod2MapEarly(1)

SpecRows == InitRows /\ [][NextRows]_vars

\* the fields of the object other than the two arrays map2tod stores into
Rest(o) == [o EXCEPT !.point_matrix = <<>>, !.pol_angs = <<>>]

\* every row of the two arrays but row r (counted from 0) is as it was
OtherRowsKept(r) ==
    \A p \in 1..tod.npair :
        p # r + 1 => /\ tod'.point_matrix[p] = tod.point_matrix[p]
                     /\ tod'.pol_angs[p] = tod.pol_angs[p]

\* the angles compute_simpolangle gives for channel ch
AnglesOf(ch) == compute_simpolangle(tod, ch, tod.pointing[ch + 1].pa, FALSE)

\* what every map2tod(ch) leaves alone, and what it stores but the angles
Map2TodFrame(ch) ==
    /\ OtherRowsKept(ch \div 2)
    /\ Rest(tod') = Rest(tod)
    /\ maps' = maps
    /\ ch % 2 = 1 => tod' = tod
    /\ ch % 2 = 0 => tod'.point_matrix[(ch \div 2) + 1] = map2tod_index_local(tod, ch)

\* C16 as stated: map2tod(ch) stores the local pixel indices and the angles
\* in row ch/2 of the two arrays when ch is even and changes neither when ch
\* is odd; no other row, nor the accumulator, the weights or the mask, changes.
C16_Map2TodStoresRow ==
    [][\A ch \in 0..3 :
          Map2Tod(ch) =>
              /\ Map2TodFrame(ch)
              /\ ch % 2 = 0 => tod'.pol_angs[(ch \div 2) + 1] = AnglesOf(ch)]_vars

\* C16 amended: as above, the angles being stored only when the input sky is
\* polarised; with an intensity-only sky the angle array is left as it was.
C16_Map2TodStoresRowWhenPolarised ==
    [][\A ch \in 0..3 :
          Map2Tod(ch) =>
              /\ Map2TodFrame(ch)
              /\ ch % 2 = 0 =>
                    IF tod.do_pol
                    THEN tod'.pol_angs[(ch \div 2) + 1] = AnglesOf(ch)
                    ELSE tod'.pol_angs = tod.pol_angs]_vars

\* both channels of the second pair have been scanned on a polarised sky, and
\* its row holds indices and angles other than those it was created with
C16_Witness ==
    /\ tod.do_pol /\ tod.npair = 2
    /\ ts[3] # <<>> /\ ts[4] # <<>> /\ ts[1] = <<>>
    /\ \E t \in 1..tod.nsamples : tod.point_matrix[2][t] # 0
    /\ \E t \in 1..tod.nsamples : tod.pol_angs[2][t] # 0
    /\ tod.point_matrix[1] = [t \in 1..tod.nsamples |-> 0]

----------------------------------------------------------------------------
(* The pixel indexer with the outliers kept *)

\* C17: with an observed-pixel set and cut_outliers False the call raises
\* exactly when some sample's global identifier is not in the set, and
\* otherwise returns the indices the call with cut_outliers True returns;
\* with cut_outliers True it never raises.
C17_OutliersRaiseOnlyWhenKept ==
    (bpm.called /\ bpm.projection = "healpix" /\ bpm.obspix.given) =>
        LET outside == {t \in 1..Len(bpm.index_global) :
                           ~InSeq(bpm.index_global[t], bpm.obspix.pix)}
        IN  IF bpm.cut_outliers
            THEN bpm.out.exc = "none"
            ELSE /\ bpm.out.exc # "none" <=> outside # {}
                 /\ outside = {} =>
                       /\ bpm.out.index_local =
                             bpm_healpix(bpm.index_global, bpm.obspix.pix, TRUE).index_local
                       /\ \A t \in 1..Len(bpm.index_global) :
                             bpm.obspix.pix[bpm.out.index_local[t] + 1] = bpm.index_global[t]

\* a call with the outliers kept has raised with one sample in the set and
\* one outside it
C17_Witness ==
    /\ bpm.called /\ bpm.projection = "healpix" /\ bpm.obspix.given /\ ~bpm.cut_outliers
    /\ bpm.out.exc = "ValueError"
    /\ Len(bpm.index_global) = 2
    /\ InSeq(bpm.index_global[1], bpm.obspix.pix)
    /\ ~InSeq(bpm.index_global[2], bpm.obspix.pix)

----------------------------------------------------------------------------
(* Pointing model (class pointing) *)

\* encoder angles are multiples of half a radian; sin, cos and tan are
\* tabulated to one decimal at the multiples the model meets.  As in floating
\* point, tan is zero at angle 0 only and cos is zero nowhere.
HalfRadians(x) == (2 * x[1]) \div x[2]

sin(x) ==
    LET k == HalfRadians(x)
    IN  CASE k = 0 -> Zero [] k = 1 -> Rat(5, 10) [] k = 2 -> Rat(8, 10)
          [] k = 4 -> Rat(9, 10) [] k = 8 -> Rat(-8, 10)

cos(x) ==
    LET k == HalfRadians(x)
    IN  CASE k = 0 -> One [] k = 1 -> Rat(9, 10) [] k = 2 -> Rat(5, 10)
          [] k = 4 -> Rat(-4, 10) [] k = 8 -> Rat(-7, 10)

tan(x) ==
    LET k == HalfRadians(x)
    IN  CASE k = 0 -> Zero [] k = 1 -> Rat(5, 10) [] k = 2 -> Rat(16, 10)

\* sin and cos of the default latitude, -22.958 degrees
sin_lat == Rat(-4, 10)
cos_lat == Rat(9, 10)

sec2deg == Rat(360, 86400)

\* np.pi / (180.0 * 60.)
arcmin2rad == Rat(22, 7 * 180 * 60)

ParamNames == {"an", "aw", "an2", "aw2", "an4", "aw4", "npae", "ca", "ia", "ie", "tf", "tfs", "ref", "dt", "elt", "ta1", "te1", "sa", "se", "sa2", "se2", "sta", "ste", "sta2", "ste2"}

\* allowed_params.split().index(param)
index_of(names, param) == CHOOSE i \in 1..Len(names) : names[i] = param /\ \A j \in 1..(i - 1) : names[j] # param

\* the parameter dictionary, lines 142-153
params_of(self) ==
    LET given == [p \in ParamNames |->
                     IF InSeq(p, self.allowed_params)
                     THEN self.value_params[index_of(self.allowed_params, p)]
                     ELSE Zero]
    IN  [given EXCEPT !["dt"] = FMul(@, sec2deg)]

\* np.min(self.time), for a non-empty array
np_min(x) == CHOOSE v \in {x[i] : i \in 1..Len(x)} : \A i \in 1..Len(x) : ~FLt(x[i], v)

\* azd of sample t in arcminutes, lines 156-171
azd_of(params, az, el) ==
    LET a1 == FMul(FMul(FNeg(params["an"]), sin(az)), sin(el))
        a2 == FSub(a1, FMul(FMul(params["aw"], cos(az)), sin(el)))
        a3 == FSub(a2, FMul(FMul(FNeg(params["an2"]), sin(FMul(Num(2), az))), sin(el)))
        a4 == FSub(a3, FMul(FMul(params["aw2"], cos(FMul(Num(2), az))), sin(el)))
        a5 == FSub(a4, FMul(FMul(FNeg(params["an4"]), sin(FMul(Num(4), az))), sin(el)))
        a6 == FSub(a5, FMul(FMul(params["aw4"], cos(FMul(Num(4), az))), sin(el)))
        a7 == FAdd(a6, FMul(params["npae"], sin(el)))
        a8 == FSub(a7, params["ca"])
        a9 == FAdd(a8, FMul(params["ia"], cos(el)))
    IN  FAdd(a9, FMul(params["dt"],
                      FAdd(FNeg(sin_lat), FMul(FMul(cos(az), cos_lat), tan(el)))))

\* eld of sample t in arcminutes, lines 174-188
eld_of(params, az, el, time, tmin) ==
    LET e1 == FMul(params["an"], cos(az))
        e2 == FSub(e1, FMul(params["aw"], sin(az)))
        e3 == FSub(e2, FMul(params["an2"], cos(FMul(Num(2), az))))
        e4 == FSub(e3, FMul(params["aw2"], sin(FMul(Num(2), az))))
        e5 == FSub(e4, FMul(params["an4"], cos(FMul(Num(4), az))))
        e6 == FSub(e5, FMul(params["aw4"], sin(FMul(Num(4), az))))
        e7 == FSub(e6, params["ie"])
        e8 == FAdd(e7, FMul(params["tf"], cos(el)))
        e9 == FAdd(e8, FMul(params["tfs"], sin(el)))
        e10 == FSub(e9, FDiv(params["ref"], tan(el)))
        e11 == FAdd(e10, FMul(FMul(FNeg(params["dt"]), cos_lat), sin(az)))
    IN  FAdd(e11, FMul(params["elt"], FSub(time, tmin)))

\* apply_pointing_model, lines 133-199
apply_pointing_model(self) ==
    IF Len(self.value_params) # Len(self.allowed_params)
    THEN [exc |-> "AssertionError", az |-> <<>>, el |-> <<>>]
    ELSE IF Len(self.time) = 0
    THEN [exc |-> "ValueError", az |-> <<>>, el |-> <<>>]
    ELSE LET params == params_of(self)
             n == Len(self.az_enc)
             azd == [t \in 1..n |->
                        FDiv(FMul(azd_of(params, self.az_enc[t], self.el_enc[t]), arcmin2rad),
                             cos(self.el_enc[t]))]
             eld == [t \in 1..n |->
                        FMul(eld_of(params, self.az_enc[t], self.el_enc[t], self.time[t],
                                    np_min(self.time)),
                             arcmin2rad)]
         IN  [exc |-> "none",
              az |-> [t \in 1..n |-> FSub(self.az_enc[t], azd[t])],
              el |-> [t \in 1..n |-> FSub(self.el_enc[t], eld[t])]]

\* the arguments of pointing(az_enc, el_enc, time, value_params, allowed_params)
PointingArgs(az_enc, el_enc, time, value_params, allowed_params) ==
    [projection |-> "none", az_enc |-> az_enc, el_enc |-> el_enc, time |-> time,
     value_params |-> value_params, allowed_params |-> allowed_params,
     constructed |-> FALSE, exc |-> "none", az |-> <<>>, el |-> <<>>]

\* pointing(...): __init__ stores its arguments and applies the model, lines 113-120
Pointing ==
    /\ ~tod.constructed
    /\ LET r == apply_pointing_model(tod)
       IN  tod' = [tod EXCEPT !.constructed = TRUE, !.exc = r.exc, !.az = r.az, !.el = r.el]
    /\ ts' = <<tod.az_enc, tod.el_enc, tod.time>>
    /\ UNCHANGED <<maps, fperr, ret, nops, bpm>>

MaxEnc == 2

\* the names given and their values: none, two or three names, and one value
\* too few
ParamCalls ==
    {<<<<>>, <<>>>>, <<<<"ia", "ie">>, <<Zero>>>>}
    \cup {<<<<"ia", "ie">>, <<a, e>>>> : a \in {Zero, One}, e \in {Zero, One}}
    \cup {<<<<"an", "ref", "dt">>, <<a, Zero, Zero>>>> : a \in {Zero, One}}

InitPointing ==
    /\ maps = <<>>
    /\ fperr = "warn"
    /\ ret = NoRet
    /\ nops = 0
    /\ bpm = NoBpm
    /\ ts = <<>>
    /\ \E n \in 0..MaxEnc, call \in ParamCalls :
          \E az_enc \in [1..n -> {Zero, Rat(1, 2), One}],
             el_enc \in [1..n -> {Zero, Rat(1, 2), One}],
             time \in [1..n -> {Zero, One}] :
             tod = PointingArgs(az_enc, el_enc, time, call[2], call[1])

NextPointing == Pointing

SpecPointing == InitPointing /\ [][NextPointing]_vars

\* C18: with every parameter zero the corrected azimuth and elevation are
\* the encoder azimuth and elevation at every sample, whatever the encoder
\* arrays and the timestamps, and the arrays given are as they were.
C18_ZeroParamsGiveEncoderValues ==
    (/\ tod.constructed
     /\ Len(tod.value_params) = Len(tod.allowed_params)
     /\ \A i \in 1..Len(tod.value_params) : tod.value_params[i] = Zero) =>
        /\ tod.exc = "none"
        /\ Len(tod.az) = Len(tod.az_enc) /\ Len(tod.el) = Len(tod.el_enc)
        /\ \A t \in 1..Len(tod.az_enc) :
              FEq(tod.az[t], tod.az_enc[t]) /\ FEq(tod.el[t], tod.el_enc[t])
        /\ ts = <<tod.az_enc, tod.el_enc, tod.time>>

----------------------------------------------------------------------------
(* Construction *)

\* OutputSkyMap.__init__, lines 528-552; an optional argument left at None is
\* the empty sequence, one given is a one-element sequence
OutputSkyMap_init(projection, obspix, npixsky, nside, pixel_size) ==
    IF projection = "healpix" /\ (obspix = <<>> \/ nside = <<>>)
    THEN [exc |-> "AssertionError"]
    ELSE IF projection = "flat" /\ (npixsky = <<>> \/ pixel_size = <<>>)
    THEN [exc |-> "AssertionError"]
    ELSE [exc |-> "none",
          self |-> OutputSkyMap(projection,
                                IF obspix = <<>> THEN NoObspix ELSE Obspix(obspix[1]),
                                IF npixsky = <<>> THEN 0 ELSE npixsky[1])]

\* the assertion of TimeOrderedDataPairDiff.__init__, lines 66-69
projection_understood(projection) == projection \in {"healpix", "flat"}

MaxObjects == 2

\* OutputSkyMap(projection, obspix, npixsky, nside, pixel_size)
NewOutputSkyMap(projection, obspix, npixsky, nside, pixel_size) ==
    /\ Len(maps) < MaxObjects
    /\ LET r == OutputSkyMap_init(projection, obspix, npixsky, nside, pixel_size)
       IN  /\ maps' = IF r.exc = "none" THEN Append(maps, r.self) ELSE maps
           /\ ret' = [NoRet EXCEPT !.op = "OutputSkyMap", !.exc = r.exc]
    /\ UNCHANGED <<fperr, nops, bpm, tod, ts>>

\* TimeOrderedDataPairDiff(..., projection=projection)
NewTimeOrderedDataPairDiff(projection, obspix, npair, do_pol) ==
    /\ tod = NoTod
    /\ IF projection_understood(projection)
       THEN /\ tod' = TimeOrderedDataPairDiff(
                          projection, InputSky(do_pol), npair, NSamples, One, One, obspix,
                          [t \in 1..NSamples |-> 0],
                          [c \in 1..(2 * npair) |-> IF c % 2 = 1 THEN 90 ELSE 0],
                          PointingOf([p \in 1..npair |-> [t \in 1..NSamples |-> 1]],
                                     npair, NSamples))
            /\ ts' = [c \in 1..(2 * npair) |-> <<>>]
            /\ ret' = [NoRet EXCEPT !.op = "TimeOrderedDataPairDiff"]
       ELSE /\ ret' = [NoRet EXCEPT !.op = "TimeOrderedDataPairDiff", !.exc = "AssertionError"]
            /\ UNCHANGED <<tod, ts>>
    /\ UNCHANGED <<maps, fperr, nops, bpm>>

\* the projection names tried: the two understood and one that is not
ProjectionNames == {"healpix", "flat", "car"}

InitNew ==
    /\ maps = <<>>
    /\ fperr = "warn"
    /\ ret = NoRet
    /\ nops = 0
    /\ bpm = NoBpm
    /\ tod = NoTod
    /\ ts = <<>>

\* an unknown projection is tried with npixsky given; np.zeros(None) is left out
NextNew ==
    \/ \E projection \in ProjectionNames, obspix \in {<<>>, <<<<0, 1, 2>>>>, <<<<1, 3>>>>},
          npixsky \in {<<>>, <<1>>, <<2>>}, nside \in {<<>>, <<1>>}, pixel_size \in {<<>>, <<One>>} :
          /\ projection_understood(projection) \/ npixsky # <<>>
          /\ NewOutputSkyMap(projection, obspix, npixsky, nside, pixel_size)
    \/ \E projection \in ProjectionNames, obspix \in {<<0, 1, 2>>, <<1, 3>>},
          npair \in {1, 2}, do_pol \in BOOLEAN :
          NewTimeOrderedDataPairDiff(projection, obspix, npair, do_pol)

SpecNew == InitNew /\ [][NextNew]_vars

\* C19: no TimeOrderedDataPairDiff and no OutputSkyMap with a projection
\* other than 'healpix' or 'flat' exists: every such construction fails.
C19_NoUnknownProjection ==
    /\ tod = NoTod \/ tod.projection \in {"healpix", "flat"}
    /\ \A i \in 1..Len(maps) : maps[i].projection \in {"healpix", "flat"}

----------------------------------------------------------------------------
(* The lengths of the accumulator's arrays *)

\* C20: each of the eight arrays of every accumulator has the length the
\* accumulator was created with, npixsky, after any coadd_MPI over any of
\* the name lists and with any other accumulator.
C20_ArraysKeepLength ==
    \A id \in DOMAIN maps : \A k \in Names : Len(maps[id].arr[k]) = maps[id].npixsky

----------------------------------------------------------------------------
(* partial2full *)

\* partial2full(partial_obs, obspix, nside, fill_with), lines 795-797, for
\* obspix within the sky and as long as partial_obs; of a pixel named twice
\* the last value stays
partial2full(partial_obs, obspix, nside, fill_with) ==
    LET fullsky == [i \in 1..(12 * nside * nside) |-> FMul(Zero, fill_with)]
    IN  [i \in 1..(12 * nside * nside) |->
            IF InSeq(i - 1, obspix)
            THEN partial_obs[CHOOSE j \in 1..Len(obspix) :
                                /\ obspix[j] = i - 1
                                /\ \A l \in (j + 1)..Len(obspix) : obspix[l] # i - 1]
            ELSE fullsky[i]]

\* fullsky = partial2full(partial_obs, obspix, nside, fill_with)
Partial2Full ==
    /\ ret.op = "none"
    /\ ret' = [NoRet EXCEPT !.op = "partial2full",
                            !.I = partial2full(ts.partial_obs, ts.obspix, ts.nside, ts.fill_with)]
    /\ UNCHANGED <<maps, fperr, nops, bpm, tod, ts>>

MaxObserved == 2

\* up to MaxObserved distinct pixels of the sky at nside 1, in any order
InitPartial ==
    /\ maps = <<>>
    /\ fperr = "warn"
    /\ ret = NoRet
    /\ nops = 0
    /\ bpm = NoBpm
    /\ tod = NoTod
    /\ \E n \in 0..MaxObserved, fill_with \in {Zero, One, Num(-1)} :
          \E obspix \in [1..n -> 0..11], partial_obs \in [1..n -> {Num(3), Num(4)}] :
             /\ \A i \in 1..n, j \in 1..n : obspix[i] = obspix[j] => i = j
             /\ ts = [partial_obs |-> partial_obs, obspix |-> obspix, nside |-> 1,
                      fill_with |-> fill_with]

SpecPartial == InitPartial /\ [][Partial2Full]_vars

\* C21: partial2full returns 12 nside^2 entries, partial_obs[i] at obspix[i]
\* and fill_with everywhere else, whatever fill_with.
C21_Partial2FullFills ==
    ret.op = "partial2full" =>
        /\ Len(ret.I) = 12 * ts.nside * ts.nside
        /\ \A i \in 1..Len(ts.obspix) : ret.I[ts.obspix[i] + 1] = ts.partial_obs[i]
        /\ \A p \in 1..Len(ret.I) : ~InSeq(p - 1, ts.obspix) => ret.I[p] = ts.fill_with

----------------------------------------------------------------------------
(* Runs constructed over one sky model *)

\* get_boresightpointing on the sky model, lines 264-283: in flat projection
\* I, Q and U of the HealpixFitsMap object are replaced by themselves indexed
\* with pix, the pixel each pixel centre is rotated to; pix comes from the
\* patch centre of the scanning strategy
get_boresightpointing_sky(projection, sky, pix) ==
    IF projection = "flat"
    THEN [sky EXCEPT !.I = [g \in 1..Len(pix) |-> sky.I[pix[g] + 1]],
                     !.Q = [g \in 1..Len(pix) |-> sky.Q[pix[g] + 1]],
                     !.U = [g \in 1..Len(pix) |-> sky.U[pix[g] + 1]]]
    ELSE sky

MaxRuns == 2

\* TimeOrderedDataPairDiff(inst, scan, sky_in, CESnumber=..., projection=...)
\* over the sky model shared by the runs, then map2tod(0) on the new run;
\* the scans start at different positions of the same sweep
ConstructRun(proj, start) ==
    /\ Len(ts) < MaxRuns
    /\ LET sky == get_boresightpointing_sky(proj[1], tod.HealpixFitsMap, tod.pix)
           run == TimeOrderedDataPairDiff(
                      proj[1], sky, 1, NSamples, One, One, proj[2],
                      [t \in 1..NSamples |-> 0],
                      [c \in 1..2 |-> IF c % 2 = 1 THEN 90 ELSE 0],
                      PointingOf([p \in 1..1 |-> [t \in 1..NSamples |->
                                     ((start + t) % Len(Positions)) + 1]], 1, NSamples))
       IN  /\ tod' = [tod EXCEPT !.HealpixFitsMap = sky, !.projection = proj[1]]
           /\ ts' = Append(ts, [projection |-> proj[1], start |-> start, I |-> run.I,
                            d |-> map2tod(run, 0)])
    /\ ret' = [NoRet EXCEPT !.op = "TimeOrderedDataPairDiff"]
    /\ UNCHANGED <<maps, fperr, nops, bpm>>

\* a sky model and a patch centre: at the origin (pix is the identity), or
\* away from it (pixels moved round, or two pixels sent to one)
InitSky ==
    /\ maps = <<>>
    /\ fperr = "warn"
    /\ ret = NoRet
    /\ nops = 0
    /\ bpm = NoBpm
    /\ ts = <<>>
    /\ \E do_pol \in BOOLEAN, pix \in {<<0, 1, 2, 3>>, <<1, 2, 3, 0>>, <<1, 0, 3, 2>>, <<0, 0, 2, 3>>} :
          tod = [projection |-> "none", HealpixFitsMap |-> InputSky(do_pol), pix |-> pix]

SpecSky == InitSky /\ [][\E proj \in Projections, start \in 1..Len(Positions) : ConstructRun(proj, start)]_vars

\* C22: after any constructions, in either projection, the sky model holds
\* the I, Q and U it was loaded with, and every run scans the sky the first
\* run of its projection scanned: over the same scan it reads the same
\* timestream.
C22_ConstructionKeepsSky ==
    /\ tod.HealpixFitsMap = InputSky(tod.HealpixFitsMap.do_pol)
    /\ \A i \in 1..Len(ts), j \in 1..Len(ts) :
          ts[i].projection = ts[j].projection =>
              /\ ts[i].I = ts[j].I
              /\ ts[i].start = ts[j].start => ts[i].d = ts[j].d

----------------------------------------------------------------------------
(* Rows of pairs not yet scanned *)

\* the pairs of object o whose even channel has no timestream in w yet
Unscanned(o, w) == {p \in 1..o.npair : w[2 * p - 1] = <<>>}

\* the rows of the unscanned pairs hold local pixel 0 and angle 0 at every
\* sample, and with an intensity-only sky every row of angles does
RowsAsCreated(o, w) ==
    /\ \A p \in Unscanned(o, w) : \A t \in 1..o.nsamples :
          o.point_matrix[p][t] = 0 /\ o.pol_angs[p][t] = 0
    /\ ~o.do_pol => \A p \in 1..o.npair : \A t \in 1..o.nsamples : o.pol_angs[p][t] = 0

\* C23: until map2tod is called on the even channel of a pair, the pair's
\* rows of the pointing matrix and of the angle array hold 0 everywhere (not
\* -1), whatever other channels are scanned; with an intensity-only sky the
\* angle rows hold 0 even afterwards.  A tod2map called meanwhile passes the
\* shape checks and counts every sample of such a pair as a hit of local
\* pixel 0.
C23_UnscannedRowsAreZero ==
    [][/\ RowsAsCreated(tod, ts) /\ RowsAsCreated(tod', ts')
       /\ (ret'.op = "tod2map" /\ nops' = nops + 1) =>
             /\ ret'.exc = "none"
             /\ \A p \in Unscanned(tod, ts) : \A t \in 1..tod.nsamples : <<p, t>> \in Counted(tod, 0)
             /\ maps'[1].arr.nhit[1] =
                   FAdd(maps[1].arr.nhit[1], Num(Cardinality(Counted(tod, 0))))
             /\ \A i \in 2..maps[1].npixsky :
                   maps'[1].arr.nhit[i] =
                      FAdd(maps[1].arr.nhit[i], Num(Cardinality(Counted(tod, i - 1))))]_vars

\* tod2map has run with the second pair's odd channel scanned and its even
\* channel not, on a polarised sky: both its samples are hits of local pixel 0
C23_Witness ==
    /\ ret.op = "tod2map" /\ ret.exc = "none"
    /\ tod.do_pol /\ tod.npair = 2
    /\ ts[3] = <<>> /\ ts[4] # <<>> /\ ts[1] # <<>>
    /\ \E t \in 1..tod.nsamples : tod.point_matrix[1][t] # 0
    /\ \A t \in 1..tod.nsamples : tod.point_matrix[2][t] = 0 /\ tod.pol_angs[2][t] = 0
    /\ ~FLt(maps[1].arr.nhit[1], Num(tod.nsamples))

====
